---------------------------- MODULE Spec2Model ----------------------------
(* multi-restic: the scheduler strategies (schedule.py) and the check,     *)
(* install and download-snapshot workflows (__init__.py), as state         *)
(* machines over the remote state of the configured agents.                *)
(*                                                                         *)
(* Texts (a crontab, a line) are sequences of one-character strings.  The  *)
(* character "M" stands for the marker text "# -- multi-restic --", "J"    *)
(* for the cron job line written by add_schedule, "a" for any other        *)
(* printable text; " " and "\n" are themselves.  The texts are drawn from  *)
(* characters the remote shell leaves alone inside double quotes.          *)
EXTENDS Integers, Sequences, FiniteSets, TLC

(***************************************************************************)
(* Bounds                                                                  *)
(***************************************************************************)
\* number of agents in the configuration (configuration order is 1, 2, ...)
NumAgents == 2
\* longest crontab a scheduler call starts from
MaxCronLen == 4
\* scheduler calls in a row
MaxCronCalls == 2
\* install commands in a row
MaxRuns == 1
\* entries of to_backup of every agent
NumPaths == 2
\* the env_vars lists of an agent hold at most this many directives together
MaxEnvVars == 2
\* download-snapshot is given at most this many snapshot ids
MaxWorkers == 2
\* direct calls of the systemd scheduler in SpecSystemd
MaxSystemdCalls == 3

Agents == 1..NumAgents
\* backup_root (0) and the to_backup entries below it
BackupPaths == 0..NumPaths

VARIABLES
    \* the remote state of the agents
    crontab,      \* crontab[a]: the text `crontab -l` prints on agent a
    files,        \* files[a]: what exists in the install location of agent a
    units,        \* units[a]: the systemd user timer of agent a
    paths,        \* paths[a]: which of backup_root (0) and its to_backup entries exist
    \* SpecCron
    cronCalls,    \* the scheduler calls made so far: op, text before, outcome
    \* install
    instPc,       \* where the install command is
    instIdx,      \* position in config.get_agents().items()
    instArgs,     \* the command line: agents, skip_test_backup
    instCur,      \* agent_data of the agent being processed, and what was probed
    instLog,      \* the remote operations on the agent being processed, in order
    instTouched,  \* the agents this run has issued a remote operation to
    instScheduled,\* the agents this run has called a scheduler operation on
    instResult,   \* how the run ended
    instFatal,    \* the agent at which the run stopped on an error, or 0
    instRuns,     \* install commands started so far
    \* check
    chkPc,        \* where the check command is
    chkIdx,       \* position in config.get_agents().items()
    chkItem,      \* position in agent_data.get("to_backup")
    chkLog,       \* the remote commands run on the agent being checked, in order
    chkAttempts,  \* the agents check has tried to connect to, in order
    chkOutcome,   \* chkOutcome[a]: how the check of agent a ended
    chkRestic,    \* where restic is on the agent last probed, and what check said
    \* download-snapshot
    dlPc,         \* where the main thread of download_snapshot is
    dlIds,        \* snapshot_ids, as given on the command line
    dlSpawned,    \* threads started so far
    dlJoined,     \* threads joined so far
    exportPc,     \* exportPc[w]: where the w-th _export thread is
    tmpDirs,      \* snapshots with a /tmp/multi-restic-restore-{id} on the agent
    tmpArchives,  \* snapshots with a /tmp/multi-restic-restore-{id}.tar.gz
    localFiles,   \* snapshots with a local {agent}-{repository}-{id}.tar.gz
    dlSessions,   \* dlSessions[0]: client of the command; [w]: client_inner of thread w
    exportUsed,   \* exportUsed[w]: the sessions thread w ran commands and transfers on
    exportLog,    \* exportLog[w]: the steps thread w ran, with how each ended
    \* generate_script.py
    genAgent,     \* the AgentConfig the generators are called with
    genEnvValues, \* dotenv_values(): the secret source
    genScripts,   \* what the calls of generate_script returned, and their dates
    genEnvFiles   \* what the calls of generate_env_files returned

remoteVars == <<crontab, files, units, paths>>
checkVars == <<chkPc, chkIdx, chkItem, chkLog, chkAttempts, chkOutcome, chkRestic>>
installVars == <<instPc, instIdx, instArgs, instCur, instLog, instTouched,
                 instScheduled, instResult, instFatal, instRuns>>
downloadVars == <<dlPc, dlIds, dlSpawned, dlJoined, exportPc,
                  tmpDirs, tmpArchives, localFiles, dlSessions, exportUsed,
                  exportLog>>
generateVars == <<genAgent, genEnvValues, genScripts, genEnvFiles>>
nonInstallVars == <<paths, cronCalls, checkVars, downloadVars, generateVars>>
nonCronVars == <<paths, installVars, checkVars, downloadVars, generateVars>>
nonCheckVars == <<cronCalls, installVars, downloadVars, generateVars>>
nonDownloadVars == <<remoteVars, cronCalls, installVars, checkVars, generateVars>>
nonGenerateVars == <<remoteVars, cronCalls, installVars, checkVars, downloadVars>>
vars == <<crontab, files, units, paths, cronCalls,
          instPc, instIdx, instArgs, instCur, instLog, instTouched, instScheduled,
          instResult, instFatal, instRuns,
          chkPc, chkIdx, chkItem, chkLog, chkAttempts, chkOutcome, chkRestic,
          dlPc, dlIds, dlSpawned, dlJoined, exportPc,
          tmpDirs, tmpArchives, localFiles, dlSessions, exportUsed, exportLog,
          genAgent, genEnvValues, genScripts, genEnvFiles>>

\* the check command has not started
CheckIdle ==
    /\ chkPc = "idle"
    /\ chkIdx = 1
    /\ chkItem = 1
    /\ chkLog = <<>>
    /\ chkAttempts = <<>>
    /\ chkOutcome = [a \in Agents |-> "pending"]
    /\ chkRestic = [in_path |-> FALSE, in_install |-> FALSE, reported |-> "nothing"]

\* Python's None, which str() and f-strings render as the text None
PyNone == "<None>"

\* an AgentConfig without repositories
EmptyAgent ==
    [install_location |-> "/opt/multi-restic", backup_root |-> "/data",
     to_backup |-> <<"p1", "p2">>, pre_command |-> <<"c1", "c2">>,
     post_command |-> <<>>, repositories |-> <<>>]

\* the generators have not been called
GenerateIdle ==
    /\ genAgent = EmptyAgent
    /\ genEnvValues = <<>>
    /\ genScripts = <<>>
    /\ genEnvFiles = <<>>

\* the download-snapshot command has not started
DownloadIdle ==
    /\ dlPc = "idle"
    /\ dlIds = <<>>
    /\ dlSpawned = 0
    /\ dlJoined = 0
    /\ exportPc = [w \in 1..MaxWorkers |-> "none"]
    /\ tmpDirs = {}
    /\ tmpArchives = {}
    /\ localFiles = {}
    /\ dlSessions = [w \in 0..MaxWorkers |-> 0]
    /\ exportUsed = [w \in 1..MaxWorkers |-> {}]
    /\ exportLog = [w \in 1..MaxWorkers |-> <<>>]

(***************************************************************************)
(* Text helpers: the Python string methods the cron scheduler uses         *)
(***************************************************************************)
Chars == {"a", " ", "\n", "M"}
Whitespace == {" ", "\n"}

\* all texts over cs of length at most n
TextsUpTo(cs, n) == UNION {[1..k -> cs] : k \in 0..n}

\* index of the first "\n" of s, or 0
FirstNewline(s) ==
    IF \E i \in 1..Len(s) : s[i] = "\n"
    THEN CHOOSE i \in 1..Len(s) : s[i] = "\n" /\ \A j \in 1..(i-1) : s[j] # "\n"
    ELSE 0

\* str.splitlines(): the lines of s without their line ends; a last line
\* needs no line end, and an empty text has no line
RECURSIVE splitlines(_)
splitlines(s) ==
    IF s = <<>> THEN <<>>
    ELSE LET i == FirstNewline(s) IN
         IF i = 0 THEN <<s>>
         ELSE <<SubSeq(s, 1, i-1)>> \o splitlines(SubSeq(s, i+1, Len(s)))

rstrip_keep(s) == s
\* str.rstrip(): s without its trailing whitespace
RECURSIVE rstrip(_)
rstrip(s) ==
    IF s # <<>> /\ s[Len(s)] \in Whitespace
    THEN rstrip(SubSeq(s, 1, Len(s)-1))
    ELSE s

\* "# -- multi-restic --" in line.strip()
HasMarker(line) == \E i \in 1..Len(line) : line[i] = "M"

(***************************************************************************)
(* CronScheduler                                                           *)
(***************************************************************************)
\* the comment line add_schedule writes: it contains the marker text
MarkerLine == <<"M">>
\* cron_command
CronCommand == <<"J">>

\* what `echo "<text>" | crontab -` installs: echo ends its output with a newline
EchoToCrontab(text) == text \o <<"\n">>

\* what `crontab -l 2>/dev/null` prints: the crontab, or nothing when it fails
CrontabList(a, readOk) == IF readOk THEN crontab[a] ELSE <<>>

\* add_schedule: the text handed to echo
AddText(crontab_contents) ==
    crontab_contents \o MarkerLine \o <<"\n">> \o CronCommand

\* remove_schedule: the loop over crontab_contents.splitlines()
RECURSIVE RemoveLoop(_, _, _, _)
RemoveLoop(lines, i, delete_next, new_crontab) ==
    IF i > Len(lines) THEN new_crontab
    ELSE IF HasMarker(lines[i]) THEN RemoveLoop(lines, i+1, TRUE, new_crontab)
    ELSE IF delete_next THEN RemoveLoop(lines, i+1, FALSE, new_crontab)
    ELSE RemoveLoop(lines, i+1, FALSE, new_crontab \o lines[i] \o <<"\n">>)

\* remove_schedule: the text handed to echo
RemoveText(crontab_contents) ==
    rstrip(RemoveLoop(splitlines(crontab_contents), 1, FALSE, <<>>))

\* CronScheduler.add_schedule on agent a; the outcome is "ok" or "raised"
CronAddSchedule(a, readOk, writeOk) ==
    crontab' = IF writeOk
               THEN [crontab EXCEPT ![a] = EchoToCrontab(AddText(CrontabList(a, readOk)))]
               ELSE crontab

\* CronScheduler.remove_schedule on agent a
CronRemoveSchedule(a, readOk, writeOk) ==
    crontab' = IF writeOk
               THEN [crontab EXCEPT ![a] = EchoToCrontab(RemoveText(CrontabList(a, readOk)))]
               ELSE crontab

(***************************************************************************)
(* The remote commands other than the schedulers'                          *)
(***************************************************************************)
\* the install location after a successful command
FilesAfter(cmd, f) ==
    CASE cmd = "install -d" -> f \cup {"dir"}
      [] cmd = "download restic" -> f \cup {"restic"}
      [] cmd = "put env" -> f \cup {"env"}
      [] cmd = "put backup.sh" -> f \cup {"backup.sh"}
      [] OTHER -> f

(***************************************************************************)
(* SystemdScheduler                                                        *)
(***************************************************************************)
\* service, timer: the unit files in the install location; link: the symlink
\* in ~/.config/systemd/user; enabled: the timer is enabled and started
NoUnits == [service |-> FALSE, timer |-> FALSE, link |-> FALSE, enabled |-> FALSE]

\* add_schedule has six steps that can fail: two sftp writes, then the four
\* commands joined by &&
SystemdAddSteps == 6
\* remove_schedule: the three rm -f joined by && after `disable --now || true`
SystemdRemoveSteps == 3

\* SystemdScheduler.add_schedule on agent a, of which the first `done` steps
\* succeed; it raises unless all did
SystemdAddSchedule(a, done) ==
    units' = [units EXCEPT ![a] =
                [service |-> @.service \/ done >= 1,
                 timer   |-> @.timer \/ done >= 2,
                 link    |-> @.link \/ done >= 4,
                 enabled |-> @.enabled \/ done = SystemdAddSteps]]

\* SystemdScheduler.remove_schedule on agent a: `disable --now` stops the
\* timer or fails and is ignored; the first `done` of the rm -f succeed
SystemdRemoveSchedule(a, disabled, done) ==
    units' = [units EXCEPT ![a] =
                [service |-> @.service /\ done < 1,
                 timer   |-> @.timer /\ done < 2,
                 link    |-> @.link /\ done < 3,
                 enabled |-> @.enabled /\ ~disabled]]

\* (mutant) without `|| true`: a failing disable fails the command list
SystemdRemoveOk_Strict(disabled, done) == disabled /\ done = SystemdRemoveSteps

\* exit_code == 0 in remove_schedule: the status of `disable --now` is
\* replaced by that of `true`, the three rm -f count
SystemdRemoveOk(disabled, done) == done = SystemdRemoveSteps

\* exit_code == 0 in add_schedule, after the two sftp writes
SystemdAddOk(done) == done = SystemdAddSteps

(***************************************************************************)
(* install                                                                 *)
(***************************************************************************)
\* an agent name given on the command line that the configuration lacks
UnknownAgent == 0
\* the AGENTS arguments tried: none (all agents), or one name
AgentArgs == {{}} \cup {{n} : n \in Agents \cup {UnknownAgent}}

SchedulerKinds == {"cron", "systemd"}

\* Scheduler.create
SchedulerCreate(agent) ==
    CASE agent.scheduler = "cron" -> "CronScheduler"
      [] agent.scheduler = "systemd" -> "SystemdScheduler"
      [] OTHER -> "ValueError"

NoAgent == [scheduler |-> "cron", envOk |-> TRUE]

InstallIdle ==
    /\ instPc = "idle"
    /\ instIdx = 1
    /\ instArgs = [agents |-> {}, skip |-> FALSE]
    /\ instCur = NoAgent
    /\ instLog = <<>>
    /\ instTouched = {}
    /\ instScheduled = {}
    /\ instResult = "none"
    /\ instFatal = 0
    /\ instRuns = 0

\* the remote operations that change the agent
MutatingOps == {"install -d", "download restic", "put env", "put backup.sh",
                "run backup.sh", "crontab -", "put units", "systemctl enable",
                "systemctl disable; rm"}

\* `crontab -l 2>/dev/null` as the log shows it: its exit status is not read
CrontabRead(readOk) == IF readOk THEN "crontab -l" ELSE "crontab -l failed"

\* the calls of install on the scheduler, as the log marks them
SchedulerOps == {"remove_schedule", "add_schedule"}

Logged(a, ops) ==
    /\ instLog' = instLog \o ops
    /\ instTouched' = instTouched \cup {a}
    /\ instScheduled' = IF \E i \in 1..Len(ops) : ops[i] \in SchedulerOps
                        THEN instScheduled \cup {a} ELSE instScheduled

\* the install command starts
InstallStart ==
    /\ instPc \in {"idle", "done"}
    /\ instRuns < MaxRuns
    /\ \E ag \in AgentArgs, skip \in BOOLEAN :
          instArgs' = [agents |-> ag, skip |-> skip]
    /\ instPc' = "loop"
    /\ instIdx' = 1
    /\ instCur' = NoAgent
    /\ instLog' = <<>>
    /\ instTouched' = {}
    /\ instScheduled' = {}
    /\ instResult' = "none"
    /\ instFatal' = 0
    /\ instRuns' = instRuns + 1
    /\ UNCHANGED <<remoteVars, nonInstallVars>>

\* for (agent_name, agent_data) in config.get_agents().items(): the loop is
\* over, or the agent is not among the AGENTS given, or its turn comes
InstallLoop ==
    /\ instPc = "loop"
    /\ IF instIdx > NumAgents
       THEN /\ instPc' = "done"
            /\ instResult' = "completed"
            /\ UNCHANGED <<instIdx, instCur, instLog>>
       ELSE IF instArgs.agents # {} /\ instIdx \notin instArgs.agents
       THEN /\ instIdx' = instIdx + 1
            /\ UNCHANGED <<instPc, instCur, instLog, instResult>>
       ELSE /\ \E k \in SchedulerKinds, e \in BOOLEAN :
                  instCur' = [scheduler |-> k, envOk |-> e]
            /\ instPc' = "connect"
            /\ instLog' = <<>>
            /\ UNCHANGED <<instIdx, instResult>>
    /\ UNCHANGED <<instArgs, instTouched, instScheduled, instFatal, instRuns, remoteVars,
                   nonInstallVars>>

\* the run ends at this agent: return, break or an exception
InstallStops(result) ==
    /\ instPc' = "done"
    /\ instResult' = result
    /\ instFatal' = instIdx
    /\ UNCHANGED <<instIdx, instArgs, instCur, instRuns>>

\* the agent is done with: the loop goes on
InstallNextAgent ==
    /\ instPc' = "loop"
    /\ instIdx' = instIdx + 1
    /\ UNCHANGED <<instArgs, instCur, instResult, instFatal, instRuns>>

InstallGoes(pc) ==
    /\ instPc' = pc
    /\ UNCHANGED <<instIdx, instArgs, instCur, instResult, instFatal, instRuns>>

\* try: client = connect_ssh(agent_data)  except: log, return
InstallConnect ==
    /\ instPc = "connect"
    /\ \E ok \in BOOLEAN :
          IF ok THEN Logged(instIdx, <<"open">>) /\ InstallGoes("with")
          ELSE Logged(instIdx, <<"connect failed">>) /\ InstallStops("connect failed")
    /\ UNCHANGED <<remoteVars, nonInstallVars>>

\* with connect_ssh(agent_data) as client: a second session; a failure raises
InstallWith ==
    /\ instPc = "with"
    /\ \E ok \in BOOLEAN :
          IF ok THEN Logged(instIdx, <<"open">>) /\ InstallGoes("mkdir")
          ELSE Logged(instIdx, <<"connect failed">>) /\ InstallStops("raised")
    /\ UNCHANGED <<remoteVars, nonInstallVars>>

\* (mutant) the failure only skips the agent
InstallMkdirFails_Continue ==
    /\ Logged(instIdx, <<"install -d", "close">>)
    /\ instPc' = "loop"
    /\ instIdx' = instIdx + 1
    /\ instResult' = "mkdir failed"
    /\ instFatal' = instIdx
    /\ UNCHANGED <<instArgs, instCur, instRuns>>
    /\ UNCHANGED files

\* install -d {install_location} -m 700; a non-zero exit breaks the loop
InstallMkdirFails ==
    /\ Logged(instIdx, <<"install -d", "close">>)
    /\ InstallStops("mkdir failed")
    /\ UNCHANGED files

InstallMkdir ==
    /\ instPc = "mkdir"
    /\ \/ /\ Logged(instIdx, <<"install -d">>)
          /\ files' = [files EXCEPT ![instIdx] = FilesAfter("install -d", @)]
          /\ InstallGoes("probe")
       \/ InstallMkdirFails
    /\ UNCHANGED <<crontab, units, nonInstallVars>>

\* restic_in_path, restic_in_multi_restic, download_restic
InstallProbe ==
    /\ instPc = "probe"
    /\ \E restic_in_path \in BOOLEAN :
        LET restic_in_multi_restic == "restic" \in files[instIdx]
            download_restic == ~restic_in_path /\ ~restic_in_multi_restic
        IN  InstallGoes(IF download_restic THEN "download" ELSE "generate")
    /\ Logged(instIdx, <<"restic version", "install/restic version">>)
    /\ UNCHANGED <<remoteVars, nonInstallVars>>

\* the download commands; a non-zero exit breaks the loop
InstallDownload ==
    /\ instPc = "download"
    /\ \/ /\ Logged(instIdx, <<"download restic">>)
          /\ files' = [files EXCEPT ![instIdx] = FilesAfter("download restic", @)]
          /\ InstallGoes("generate")
       \/ /\ Logged(instIdx, <<"download restic", "close">>)
          /\ InstallStops("download failed")
          /\ UNCHANGED files
    /\ UNCHANGED <<crontab, units, nonInstallVars>>

\* generate_env_files, generate_script: env_values[rest[0]] raises KeyError
\* for a source key the secret source lacks
InstallGenerate ==
    /\ instPc = "generate"
    /\ IF instCur.envOk
       THEN InstallGoes("put env") /\ UNCHANGED <<instLog, instTouched, instScheduled>>
       ELSE Logged(instIdx, <<"close">>) /\ InstallStops("raised")
    /\ UNCHANGED <<remoteVars, nonInstallVars>>

\* (mutant) the schedule is set up before backup.sh is uploaded
InstallPutEnv_ThenSchedule ==
    /\ instPc = "put env"
    /\ Logged(instIdx, <<"put env">>)
    /\ files' = [files EXCEPT ![instIdx] = FilesAfter("put env", @)]
    /\ InstallGoes("remove")
    /\ UNCHANGED <<crontab, units, nonInstallVars>>

\* the sftp writes of the .env.<repo> files
InstallPutEnv ==
    /\ instPc = "put env"
    /\ \/ /\ Logged(instIdx, <<"put env">>)
          /\ files' = [files EXCEPT ![instIdx] = FilesAfter("put env", @)]
          /\ InstallGoes("put script")
       \/ /\ Logged(instIdx, <<"put env", "close">>)
          /\ InstallStops("raised")
          /\ UNCHANGED files
    /\ UNCHANGED <<crontab, units, nonInstallVars>>

\* the sftp write of backup.sh
InstallPutScript ==
    /\ instPc = "put script"
    /\ \/ /\ Logged(instIdx, <<"put backup.sh">>)
          /\ files' = [files EXCEPT ![instIdx] = FilesAfter("put backup.sh", @)]
          /\ InstallGoes(IF instArgs.skip THEN "remove" ELSE "test")
       \/ /\ Logged(instIdx, <<"put backup.sh", "close">>)
          /\ InstallStops("raised")
          /\ UNCHANGED files
    /\ UNCHANGED <<crontab, units, nonInstallVars>>

\* if not skip_test_backup: run backup.sh; a non-zero exit returns
InstallTest ==
    /\ instPc = "test"
    /\ \/ Logged(instIdx, <<"run backup.sh">>) /\ InstallGoes("remove")
       \/ Logged(instIdx, <<"run backup.sh", "close">>) /\ InstallStops("test failed")
    /\ UNCHANGED <<remoteVars, nonInstallVars>>

\* (mutant) add_schedule without remove_schedule before it
InstallRemoveCron_Skipped ==
    /\ instPc = "remove"
    /\ SchedulerCreate(instCur) = "CronScheduler"
    /\ InstallGoes("add")
    /\ UNCHANGED <<instLog, instTouched, instScheduled, remoteVars, nonInstallVars>>

\* scheduler.remove_schedule(agent_data, client), cron
InstallRemoveCron ==
    /\ instPc = "remove"
    /\ SchedulerCreate(instCur) = "CronScheduler"
    /\ \E readOk \in BOOLEAN, writeOk \in BOOLEAN :
        /\ CronRemoveSchedule(instIdx, readOk, writeOk)
        /\ IF writeOk
           THEN Logged(instIdx, <<"remove_schedule", CrontabRead(readOk), "crontab -">>) /\ InstallGoes("add")
           ELSE /\ Logged(instIdx, <<"remove_schedule", CrontabRead(readOk), "crontab - failed", "close">>)
                /\ InstallStops("raised")
    /\ UNCHANGED <<files, units, nonInstallVars>>

\* scheduler.add_schedule(agent_data, client), cron; then the session closes
\* and the loop goes on
InstallAddCron ==
    /\ instPc = "add"
    /\ SchedulerCreate(instCur) = "CronScheduler"
    /\ \E readOk \in BOOLEAN, writeOk \in BOOLEAN :
        /\ CronAddSchedule(instIdx, readOk, writeOk)
        /\ IF writeOk
           THEN /\ Logged(instIdx, <<"add_schedule", CrontabRead(readOk), "crontab -", "scheduled", "close">>)
                /\ InstallNextAgent
           ELSE /\ Logged(instIdx, <<"add_schedule", CrontabRead(readOk), "crontab - failed", "close">>)
                /\ InstallStops("raised")
    /\ UNCHANGED <<files, units, nonInstallVars>>

\* scheduler.remove_schedule(agent_data, client), systemd
InstallRemoveSystemd ==
    /\ instPc = "remove"
    /\ SchedulerCreate(instCur) = "SystemdScheduler"
    /\ \E disabled \in BOOLEAN, done \in 0..SystemdRemoveSteps :
        /\ SystemdRemoveSchedule(instIdx, disabled, done)
        /\ IF SystemdRemoveOk(disabled, done)
           THEN Logged(instIdx, <<"remove_schedule", "systemctl disable; rm">>) /\ InstallGoes("add")
           ELSE /\ Logged(instIdx, <<"remove_schedule", "systemctl disable; rm failed", "close">>)
                /\ InstallStops("raised")
    /\ UNCHANGED <<crontab, files, nonInstallVars>>

\* scheduler.add_schedule(agent_data, client), systemd
InstallAddSystemd ==
    /\ instPc = "add"
    /\ SchedulerCreate(instCur) = "SystemdScheduler"
    /\ \E done \in 0..SystemdAddSteps :
        /\ SystemdAddSchedule(instIdx, done)
        /\ IF SystemdAddOk(done)
           THEN /\ Logged(instIdx, <<"add_schedule", "put units", "systemctl enable", "scheduled", "close">>)
                /\ InstallNextAgent
           ELSE /\ Logged(instIdx, IF done < 2 THEN <<"add_schedule", "put units failed", "close">>
                                   ELSE <<"add_schedule", "put units",
                                          "systemctl enable failed", "close">>)
                /\ InstallStops("raised")
    /\ UNCHANGED <<crontab, files, nonInstallVars>>

\* the crontabs of an agent never installed on: none, a line without its line
\* end, a line
FreshCrontabs == {<<>>, <<"a">>, <<"a", "\n">>}

\* what an install that found restic on the search path leaves in the
\* install location
InstalledFiles == {"dir", "env", "backup.sh"}

\* the state of an agent before the first install command modelled: never
\* installed on, or left by an earlier successful install with either scheduler
AgentStates ==
    {[crontab |-> t, files |-> {}, units |-> NoUnits] : t \in FreshCrontabs}
    \cup {[crontab |-> EchoToCrontab(AddText(EchoToCrontab(RemoveText(<<"a", "\n">>)))),
           files |-> InstalledFiles, units |-> NoUnits],
          [crontab |-> EchoToCrontab(RemoveText(<<"a", "\n">>)),
           files |-> InstalledFiles,
           units |-> [service |-> TRUE, timer |-> TRUE, link |-> TRUE, enabled |-> TRUE]]}

InitInstall ==
    /\ \E st \in AgentStates :
        /\ crontab = [a \in Agents |-> st.crontab]
        /\ files = [a \in Agents |-> st.files]
        /\ units = [a \in Agents |-> st.units]
    /\ paths = [a \in Agents |-> BackupPaths]
    /\ cronCalls = <<>>
    /\ InstallIdle
    /\ CheckIdle
    /\ DownloadIdle
    /\ GenerateIdle

NextInstall ==
    \/ InstallStart \/ InstallLoop \/ InstallConnect \/ InstallWith
    \/ InstallMkdir \/ InstallProbe \/ InstallDownload \/ InstallGenerate
    \/ InstallPutEnv \/ InstallPutScript \/ InstallTest
    \/ InstallRemoveCron \/ InstallAddCron
    \/ InstallRemoveSystemd \/ InstallAddSystemd

SpecInstall == InitInstall /\ [][NextInstall]_vars

(***************************************************************************)
(* check                                                                   *)
(***************************************************************************)
\* exec_cmd(client, cmd) / client.exec_command(cmd) on the agent being checked
CheckRuns(cmd) ==
    /\ chkLog' = Append(chkLog, cmd)
    /\ files' = [files EXCEPT ![chkIdx] = FilesAfter(cmd, @)]
    /\ UNCHANGED <<crontab, units, paths>>

CheckGoes(pc) ==
    /\ chkPc' = pc
    /\ UNCHANGED <<chkIdx, chkItem, chkAttempts, chkOutcome>>

\* the check of the agent is over: the for loop takes the next agent
CheckNextAgent(outcome) ==
    /\ chkOutcome' = [chkOutcome EXCEPT ![chkIdx] = outcome]
    /\ chkIdx' = chkIdx + 1
    /\ chkItem' = 1
    /\ chkPc' = IF chkIdx = NumAgents THEN "done" ELSE "connect"
    /\ UNCHANGED chkAttempts

\* the check command starts
CheckStart ==
    /\ UNCHANGED chkRestic
    /\ chkPc = "idle"
    /\ chkPc' = "connect"
    /\ UNCHANGED <<chkIdx, chkItem, chkLog, chkAttempts, chkOutcome>>
    /\ UNCHANGED <<remoteVars, nonCheckVars>>

\* (mutant) a failed connection ends the command, as in install
CheckConnectFails_Returns ==
    /\ chkLog' = <<>>
    /\ chkOutcome' = [chkOutcome EXCEPT ![chkIdx] = "unreachable"]
    /\ chkPc' = "done"
    /\ UNCHANGED <<chkIdx, chkItem>>

\* the connection fails: except Exception logs it
CheckConnectFails ==
    /\ chkLog' = <<>>
    /\ chkOutcome' = [chkOutcome EXCEPT ![chkIdx] = "unreachable"]
    /\ chkIdx' = chkIdx + 1
    /\ chkItem' = 1
    /\ chkPc' = IF chkIdx = NumAgents THEN "done" ELSE "connect"

\* with connect_ssh(agent_data) as client
CheckConnect ==
    /\ UNCHANGED chkRestic
    /\ chkPc = "connect"
    /\ chkAttempts' = Append(chkAttempts, chkIdx)
    /\ \/ /\ chkLog' = <<>>
          /\ chkPc' = "installed"
          /\ UNCHANGED <<chkIdx, chkItem, chkOutcome>>
       \/ CheckConnectFails
    /\ UNCHANGED <<remoteVars, nonCheckVars>>

\* a command raises (the session is lost): except Exception logs it
CheckSessionLost ==
    /\ UNCHANGED chkRestic
    /\ chkPc \in {"installed", "crontab", "restic", "restic again", "root", "paths"}
    /\ CheckNextAgent("lost")
    /\ UNCHANGED <<chkLog, remoteVars, nonCheckVars>>

\* (mutant) the probe creates what it looks for
CheckInstalled_Creates ==
    /\ UNCHANGED chkRestic
    /\ chkPc = "installed"
    /\ CheckRuns("install -d")
    /\ CheckGoes("crontab")
    /\ UNCHANGED nonCheckVars

\* ls {install_location}/backup.sh
CheckInstalled ==
    /\ UNCHANGED chkRestic
    /\ chkPc = "installed"
    /\ CheckRuns("ls backup.sh")
    /\ CheckGoes("crontab")
    /\ UNCHANGED nonCheckVars

\* crontab -l
CheckCrontab ==
    /\ UNCHANGED chkRestic
    /\ chkPc = "crontab"
    /\ CheckRuns("crontab -l")
    /\ CheckGoes("restic")
    /\ UNCHANGED nonCheckVars

\* what check logs about restic after a probe of {install_location}/restic
\* that was the first one or not, and succeeded or not
ResticReport(first, found) ==
    IF found THEN (IF first THEN "available in PATH"
                   ELSE "available in multi-restic installation folder")
    ELSE IF first THEN "nothing" ELSE "unavailable"

\* {install_location}/restic version, and once more when it fails; whether
\* restic is on the search path of the agent is a fact no command looks at
CheckRestic ==
    /\ chkPc \in {"restic", "restic again"}
    /\ CheckRuns("install/restic version")
    /\ LET first == chkPc = "restic"
           found == "restic" \in files[chkIdx]
       IN  /\ CheckGoes(IF found \/ ~first THEN "root" ELSE "restic again")
           /\ \E restic_in_path \in BOOLEAN :
                chkRestic' = [in_path |-> IF first THEN restic_in_path
                                          ELSE chkRestic.in_path,
                              in_install |-> found,
                              reported |-> ResticReport(first, found)]
    /\ UNCHANGED nonCheckVars

\* (mutant) no continue
CheckRootMissing_GoesOn == CheckGoes("paths")

\* backup_root is missing: continue
CheckRootMissing == CheckNextAgent("no backup_root")

\* test -e {backup_root}
CheckRoot ==
    /\ UNCHANGED chkRestic
    /\ chkPc = "root"
    /\ CheckRuns("test -e backup_root")
    /\ IF 0 \in paths[chkIdx] THEN CheckGoes("paths") ELSE CheckRootMissing
    /\ UNCHANGED nonCheckVars

\* for item in to_backup: test -e {backup_root}/{item}
CheckPath ==
    /\ UNCHANGED chkRestic
    /\ chkPc = "paths"
    /\ IF chkItem > NumPaths
       THEN CheckNextAgent("checked") /\ UNCHANGED <<chkLog, remoteVars>>
       ELSE /\ CheckRuns("test -e path")
            /\ chkItem' = chkItem + 1
            /\ UNCHANGED <<chkPc, chkIdx, chkAttempts, chkOutcome>>
    /\ UNCHANGED nonCheckVars

\* backup_root and entries below it: nothing exists below a missing root
PathStates == {{}} \cup {{0} \cup s : s \in SUBSET (1..NumPaths)}

\* the agents as AgentStates has them, with or without a downloaded restic
\* in the install location
InitCheck ==
    /\ \E st \in AgentStates, downloaded \in SUBSET {"restic"} :
        /\ crontab = [a \in Agents |-> st.crontab]
        /\ files = [a \in Agents |-> IF st.files = {} THEN {} ELSE st.files \cup downloaded]
        /\ units = [a \in Agents |-> st.units]
    /\ paths \in [Agents -> PathStates]
    /\ cronCalls = <<>>
    /\ InstallIdle
    /\ CheckIdle
    /\ DownloadIdle
    /\ GenerateIdle

NextCheck ==
    \/ CheckStart \/ CheckConnect \/ CheckSessionLost \/ CheckInstalled
    \/ CheckCrontab \/ CheckRestic \/ CheckRoot \/ CheckPath

SpecCheck == InitCheck /\ [][NextCheck]_vars

(***************************************************************************)
(* download_snapshot: one _export thread per snapshot id                   *)
(***************************************************************************)
SnapshotIds == {"s1", "s2"}

\* snapshot_ids: any list of ids, repetitions included
SnapshotIdLists == UNION {[1..n -> SnapshotIds] : n \in 0..MaxWorkers}

DownloadGoes(pc) ==
    /\ dlPc' = pc
    /\ UNCHANGED <<dlSpawned, dlJoined, exportPc, tmpDirs, tmpArchives, localFiles,
                   exportUsed, exportLog, nonDownloadVars>>

\* a session just opened is a new one: sessions are numbered as they are opened
NewSession ==
    1 + (CHOOSE n \in {dlSessions[i] : i \in 0..MaxWorkers} :
            \A i \in 0..MaxWorkers : dlSessions[i] <= n)

\* config.get_agents().get(agent_name): an unknown agent is logged, return
DownloadStart ==
    /\ UNCHANGED dlSessions
    /\ dlPc = "idle"
    /\ dlIds' \in SnapshotIdLists
    /\ \E found \in BOOLEAN : DownloadGoes(IF found THEN "connect" ELSE "returned")

\* client.connect: an exception is logged, return
DownloadConnect ==
    /\ dlPc = "connect"
    /\ \E ok \in BOOLEAN :
        /\ DownloadGoes(IF ok THEN "repository" ELSE "returned")
        /\ dlSessions' = IF ok THEN [dlSessions EXCEPT ![0] = NewSession] ELSE dlSessions
    /\ UNCHANGED dlIds

\* repository not in agent_data.get("repositories"): logged, return
DownloadRepository ==
    /\ dlPc = "repository"
    /\ \E found \in BOOLEAN : DownloadGoes(IF found THEN "spawn" ELSE "returned")
    /\ UNCHANGED <<dlIds, dlSessions>>

\* for snapshot_id in snapshot_ids: Thread(target=_export).start()
DownloadSpawn ==
    /\ dlPc = "spawn"
    /\ IF dlSpawned < Len(dlIds)
       THEN /\ dlSpawned' = dlSpawned + 1
            /\ exportPc' = [exportPc EXCEPT ![dlSpawned + 1] = "connect"]
            /\ UNCHANGED dlPc
       ELSE /\ dlPc' = "join"
            /\ UNCHANGED <<dlSpawned, exportPc>>
    /\ UNCHANGED <<dlIds, dlJoined, tmpDirs, tmpArchives, localFiles,
                   dlSessions, exportUsed, exportLog, nonDownloadVars>>

\* a thread has ended: returned, or left by an exception
ExportEnded == {"done", "failed", "died"}

\* (mutant) join returns without waiting for the thread
JoinReturns_NoWait(w) == TRUE

\* t.join() returns once thread w has ended
JoinReturns(w) == exportPc[w] \in ExportEnded

\* for t in threads: t.join()
DownloadJoin ==
    /\ dlPc = "join"
    /\ IF dlJoined < Len(dlIds)
       THEN /\ JoinReturns(dlJoined + 1)
            /\ dlJoined' = dlJoined + 1
            /\ UNCHANGED dlPc
       ELSE /\ dlPc' = "reported"
            /\ UNCHANGED dlJoined
    /\ UNCHANGED <<dlIds, dlSpawned, exportPc, tmpDirs, tmpArchives, localFiles,
                   dlSessions, exportUsed, exportLog, nonDownloadVars>>

\* (mutant) the thread runs its commands on the client of the command
client_inner_shared(w) == dlSessions[0]

\* client_inner in thread w: the session its own connect_ssh returned
client_inner(w) == dlSessions[w]

\* client_inner.exec_command, client_inner.open_sftp and the reads through it
ExportUses(w) ==
    /\ exportUsed' = [exportUsed EXCEPT ![w] = @ \cup {client_inner(w)}]
    /\ UNCHANGED dlSessions

\* the paths _export(snapshot_id) works on
RestorePath(snapshot_id) == <<"/tmp/multi-restic-restore-", snapshot_id>>
ArchivePath(snapshot_id) == <<"/tmp/multi-restic-restore-", snapshot_id, ".tar.gz">>
LocalPath(snapshot_id) == <<"destination/agent-repository-", snapshot_id, ".tar.gz">>

\* thread w ran a step
ExportRan(w, step) == exportLog' = [exportLog EXCEPT ![w] = Append(@, step)]

ExportGoes(w, pc) ==
    /\ exportPc' = [exportPc EXCEPT ![w] = pc]
    /\ UNCHANGED <<dlPc, dlIds, dlSpawned, dlJoined, nonDownloadVars>>

\* with connect_ssh(agent_data): an exception ends the thread
ExportConnect(w) ==
    /\ exportPc[w] = "connect"
    /\ \E ok \in BOOLEAN :
        /\ ExportGoes(w, IF ok THEN "restore" ELSE "died")
        /\ dlSessions' = IF ok THEN [dlSessions EXCEPT ![w] = NewSession] ELSE dlSessions
    /\ UNCHANGED <<tmpDirs, tmpArchives, localFiles, exportUsed, exportLog>>

\* (mutant) the thread goes on to compress after a failed restore
ExportRestoreFails_GoesOn(w) == ExportGoes(w, "compress")

\* if exit_code != 0: log, return
ExportRestoreFails(w) == ExportGoes(w, "failed")

\* export PATH && source .env && rm -rf dir || true && restic restore
ExportRestore(w) ==
    /\ exportPc[w] = "restore"
    /\ ExportUses(w)
    /\ \/ /\ ExportGoes(w, "compress")
          /\ ExportRan(w, "restore")
          /\ tmpDirs' = tmpDirs \cup {dlIds[w]}
       \/ /\ ExportRestoreFails(w)
          /\ ExportRan(w, "restore failed")
          /\ tmpDirs' \in {tmpDirs, tmpDirs \ {dlIds[w]}, tmpDirs \cup {dlIds[w]}}
       \/ /\ ExportGoes(w, "died")
          /\ ExportRan(w, "restore died")
          /\ tmpDirs' \in {tmpDirs, tmpDirs \ {dlIds[w]}, tmpDirs \cup {dlIds[w]}}
    /\ UNCHANGED <<tmpArchives, localFiles>>

\* tar -czf archive -C dir .
ExportCompress(w) ==
    /\ exportPc[w] = "compress"
    /\ ExportUses(w)
    /\ \/ /\ dlIds[w] \in tmpDirs
          /\ ExportGoes(w, "sftp")
          /\ ExportRan(w, "compress")
          /\ tmpArchives' = tmpArchives \cup {dlIds[w]}
       \/ /\ ExportGoes(w, "failed")
          /\ ExportRan(w, "compress failed")
          /\ tmpArchives' \in {tmpArchives, tmpArchives \cup {dlIds[w]}}
       \/ /\ ExportGoes(w, "died")
          /\ ExportRan(w, "compress died")
          /\ tmpArchives' \in {tmpArchives, tmpArchives \cup {dlIds[w]}}
    /\ UNCHANGED <<tmpDirs, localFiles>>

\* open_sftp, sftp.stat, sftp.file, open(local_path, "wb")
ExportOpen(w) ==
    /\ exportPc[w] = "sftp"
    /\ ExportUses(w)
    /\ \/ /\ dlIds[w] \in tmpArchives
          /\ ExportGoes(w, "transfer")
          /\ ExportRan(w, "open")
          /\ localFiles' = localFiles \cup {dlIds[w]}
       \/ /\ ExportGoes(w, "died")
          /\ ExportRan(w, "open died")
          /\ UNCHANGED localFiles
    /\ UNCHANGED <<tmpDirs, tmpArchives>>

\* while True: data = remote_file.read(1048576); if not data: break
ExportRead(w) ==
    /\ exportPc[w] = "transfer"
    /\ ExportUses(w)
    /\ \E end \in {"transfer", "done", "died"} : ExportGoes(w, end)
    /\ UNCHANGED <<tmpDirs, tmpArchives, localFiles, exportLog>>

ExportStep(w) ==
    \/ ExportConnect(w) \/ ExportRestore(w) \/ ExportCompress(w)
    \/ ExportOpen(w) \/ ExportRead(w)

Export == \E w \in 1..MaxWorkers : ExportStep(w)

InitDownload ==
    /\ \E st \in AgentStates :
        /\ crontab = [a \in Agents |-> st.crontab]
        /\ files = [a \in Agents |-> st.files]
        /\ units = [a \in Agents |-> st.units]
    /\ paths = [a \in Agents |-> BackupPaths]
    /\ cronCalls = <<>>
    /\ InstallIdle
    /\ CheckIdle
    /\ DownloadIdle
    /\ GenerateIdle

NextDownload ==
    \/ DownloadStart \/ DownloadConnect \/ DownloadRepository
    \/ DownloadSpawn \/ DownloadJoin \/ Export

SpecDownload == InitDownload /\ [][NextDownload]_vars

(***************************************************************************)
(* generate_script.py.  A text is a sequence of lines, a line a sequence of *)
(* tokens; the values of the configuration are tokens without line ends.   *)
(***************************************************************************)
\* str.split(sep)
RECURSIVE Split(_, _)
Split(str, sep) ==
    IF \A i \in 1..Len(str) : str[i] # sep THEN <<str>>
    ELSE LET i == CHOOSE j \in 1..Len(str) :
                     str[j] = sep /\ \A k \in 1..(j-1) : str[k] # sep
         IN  <<SubSeq(str, 1, i-1)>> \o Split(SubSeq(str, i+1, Len(str)), sep)

\* sep.join(parts), the parts being token sequences
RECURSIVE Join(_, _)
Join(parts, sep) ==
    IF parts = <<>> THEN <<>>
    ELSE IF Len(parts) = 1 THEN parts[1]
    ELSE parts[1] \o <<sep>> \o Join(Tail(parts), sep)

\* sep.join(list) for a list of plain strings
JoinStrings(list, sep) == Join([i \in 1..Len(list) |-> <<list[i]>>], sep)

\* the text of a token sequence as a dictionary key
AsKey(part) == IF part = <<>> THEN "" ELSE part[1]

\* how an f-string renders a value
Format(value) == IF value = PyNone THEN "None" ELSE value

\* bool(value) of an optional string
Truthy(value) == value \notin {PyNone, ""}

\* the lines one env_vars entry adds, or KeyError
EnvVarLines(env_var, env_values) ==
    LET parts == Split(env_var, ":")
        prefix == parts[1]
        rest == Tail(parts)
    IN  IF prefix = <<"plain">>
        THEN << <<"export ">> \o Join(rest, ":") >>
        ELSE IF prefix = <<"env">> /\ Len(rest) \in {1, 2}
        THEN IF AsKey(rest[1]) \notin DOMAIN env_values THEN "KeyError"
             ELSE << <<"export ">> \o rest[Len(rest)] \o
                     <<"=", Format(env_values[AsKey(rest[1])])>> >>
        ELSE <<>>

\* for env_var in repo.get("env_vars", [])
RECURSIVE EnvFileFrom(_, _, _, _)
EnvFileFrom(env_vars, i, env_values, text) ==
    IF i > Len(env_vars) THEN text
    ELSE LET lines == EnvVarLines(env_vars[i], env_values)
         IN  IF lines = "KeyError" THEN "KeyError"
             ELSE EnvFileFrom(env_vars, i+1, env_values, text \o lines)

\* for (repo_name, repo) in agent.get("repositories", {}).items()
RECURSIVE EnvFilesFrom(_, _, _, _)
EnvFilesFrom(repos, i, env_values, env_files) ==
    IF i > Len(repos) THEN env_files
    ELSE LET text == EnvFileFrom(repos[i].env_vars, 1, env_values,
                       << <<"# Environment variables for repository ", repos[i].name>>,
                          <<"export RESTIC_REPOSITORY=", Format(repos[i].endpoint)>> >>)
         IN  IF text = "KeyError" THEN "KeyError"
             ELSE EnvFilesFrom(repos, i+1, env_values,
                               Append(env_files, [name |-> repos[i].name, text |-> text]))

generate_env_files(agent, env_values) ==
    EnvFilesFrom(agent.repositories, 1, env_values, <<>>)

\* (mutant) the block sets the endpoint itself instead of sourcing the file
generate_repository_script_inline(agent, repo) ==
    << <<"# START ", repo.name>>,
       <<"export RESTIC_REPOSITORY=", Format(repo.endpoint)>>,
       <<>>,
       <<"restic backup ">> \o JoinStrings(agent.to_backup, " "),
       <<"# END ", repo.name>> >>

generate_repository_script(agent, repo) ==
    << <<"# START ", repo.name>>,
       <<"source ", agent.install_location, "/.env.", repo.name>>,
       <<>>,
       <<"if ! restic cat config >/dev/null 2>&1; then">>,
       <<"    # Restic automatically does mkdir -p if necessary">>,
       <<"    restic init">>,
       <<"fi">>,
       <<>>,
       <<"restic backup ">> \o JoinStrings(agent.to_backup, " ") >>
    \o (IF Truthy(repo.forget_arguments)
        THEN << <<"restic forget ", Format(repo.forget_arguments), " --prune">> >>
        ELSE <<>>)
    \o << <<"# END ", repo.name>> >>

\* "".join([generate_repository_script(...) for ... in repositories.items()])
RECURSIVE RepositoryScripts(_, _)
RepositoryScripts(agent, i) ==
    IF i > Len(agent.repositories) THEN <<>>
    ELSE generate_repository_script(agent, agent.repositories[i])
         \o RepositoryScripts(agent, i+1)

\* " && ".join(commands) if commands else "": a missing list and an empty
\* one are both <<>> here
Commands(commands) ==
    IF commands # <<>> THEN JoinStrings(commands, " && ") ELSE <<>>

\* (mutant) the date is also written at the end of the script
generate_script_stamped(agent, date) ==
    << <<"#!/bin/bash -e">>,
       <<"# Generated on ", date, " by multi-restic">> >>
    \o RepositoryScripts(agent, 1)
    \o << <<"# Post-backup commands">>, <<"# ", date>> >>

\* generate_script, date being datetime.now().isoformat()
generate_script(agent, date) ==
    << <<"#!/bin/bash -e">>,
       <<"# Generated on ", date, " by multi-restic">>,
       <<>>,
       <<"export PATH=", agent.install_location, ":$PATH">>,
       <<"cd ", Format(agent.backup_root)>>,
       <<>>,
       <<"# Pre-backup commands">>,
       Commands(agent.pre_command),
       <<>> >>
    \o RepositoryScripts(agent, 1)
    \o << <<"# Post-backup commands">>,
          Commands(agent.post_command) >>

(***************************************************************************)
(* SpecGenerate: the generators called on any small configuration          *)
(***************************************************************************)
RepoNames == {"r1", "r2"}
Endpoints == {"sftp:host:/repo", "s3:bucket"}
ForgetArguments == {PyNone, "", "--keep-daily 7"}
SecretKeys == {"SRC"}
SecretValues == {PyNone, "", "s3cr3t"}
Dates == {"2026-01-01T02:00:00", "2026-01-02T02:00:00"}

\* the env_vars entries tried: the documented forms, a literal with a colon,
\* an env: entry with a part too many, an unknown prefix
Directives ==
    { <<"plain", ":", "A=B">>,
      <<"plain", ":", "A=b", ":", "c">>,
      <<"env", ":", "SRC">>,
      <<"env", ":", "SRC", ":", "DST">>,
      <<"env", ":", "SRC", ":", "DST", ":", "X">>,
      <<"secret", ":", "SRC">> }

EnvVarLists == UNION {[1..n -> Directives] : n \in 0..MaxEnvVars}

\* the repositories mapping: distinct names, in the order of the file
RepoOrders ==
    {<<>>} \cup {<<n>> : n \in RepoNames}
           \cup {<<n, m>> : <<n, m>> \in {p \in RepoNames \X RepoNames : p[1] # p[2]}}

\* dotenv_values(): each key is absent, present without a value, or has one
SecretSources ==
    {<<>>} \cup {[k \in SecretKeys |-> v] : v \in SecretValues}

RECURSIVE TotalEnvVars(_, _)
TotalEnvVars(repos, i) ==
    IF i > Len(repos) THEN 0
    ELSE Len(repos[i].env_vars) + TotalEnvVars(repos, i+1)

InitGenerate ==
    /\ \E st \in AgentStates :
        /\ crontab = [a \in Agents |-> st.crontab]
        /\ files = [a \in Agents |-> st.files]
        /\ units = [a \in Agents |-> st.units]
        /\ st.files = {}
        /\ st.crontab = <<>>
    /\ paths = [a \in Agents |-> BackupPaths]
    /\ cronCalls = <<>>
    /\ InstallIdle
    /\ CheckIdle
    /\ DownloadIdle
    /\ \E names \in RepoOrders :
         \E env \in [1..Len(names) -> EnvVarLists],
            forget \in [1..Len(names) -> ForgetArguments] :
            LET repos == [i \in 1..Len(names) |->
                            [name |-> names[i],
                             endpoint |-> "sftp:host:/repo",
                             env_vars |-> env[i],
                             forget_arguments |-> forget[i]]]
            IN  /\ TotalEnvVars(repos, 1) <= MaxEnvVars
                /\ genAgent = [EmptyAgent EXCEPT !.repositories = repos]
    /\ genEnvValues \in SecretSources
    /\ genScripts = <<>>
    /\ genEnvFiles = <<>>

\* generate_script(agent_data)
CallGenerateScript ==
    /\ Len(genScripts) < 2
    /\ \E date \in Dates :
          genScripts' = Append(genScripts,
                               [date |-> date, script |-> generate_script(genAgent, date)])
    /\ UNCHANGED <<genAgent, genEnvValues, genEnvFiles, nonGenerateVars>>

\* generate_env_files(agent_data)
CallGenerateEnvFiles ==
    /\ Len(genEnvFiles) < 2
    /\ genEnvFiles' = Append(genEnvFiles, generate_env_files(genAgent, genEnvValues))
    /\ UNCHANGED <<genAgent, genEnvValues, genScripts, nonGenerateVars>>

NextGenerate == CallGenerateScript \/ CallGenerateEnvFiles

SpecGenerate == InitGenerate /\ [][NextGenerate]_vars

(***************************************************************************)
(* SpecCron: the scheduler calls applied to any crontab of agent 1         *)
(***************************************************************************)
CronAgent == 1

CallRecord(op, readOk, writeOk) ==
    [op |-> op, pre |-> crontab[CronAgent], readOk |-> readOk, ok |-> writeOk]

InitCron ==
    /\ \E t \in TextsUpTo(Chars, MaxCronLen) :
          crontab = [a \in Agents |-> IF a = CronAgent THEN t ELSE <<>>]
    /\ files = [a \in Agents |-> {}]
    /\ units = [a \in Agents |-> NoUnits]
    /\ paths = [a \in Agents |-> BackupPaths]
    /\ cronCalls = <<>>
    /\ InstallIdle
    /\ CheckIdle
    /\ DownloadIdle
    /\ GenerateIdle

CallAdd ==
    /\ Len(cronCalls) < MaxCronCalls
    /\ \E readOk \in BOOLEAN, writeOk \in BOOLEAN :
        /\ CronAddSchedule(CronAgent, readOk, writeOk)
        /\ cronCalls' = Append(cronCalls, CallRecord("add", readOk, writeOk))
    /\ UNCHANGED <<files, units, nonCronVars>>

CallRemove ==
    /\ Len(cronCalls) < MaxCronCalls
    /\ \E readOk \in BOOLEAN, writeOk \in BOOLEAN :
        /\ CronRemoveSchedule(CronAgent, readOk, writeOk)
        /\ cronCalls' = Append(cronCalls, CallRecord("remove", readOk, writeOk))
    /\ UNCHANGED <<files, units, nonCronVars>>

NextCron == CallAdd \/ CallRemove

SpecCron == InitCron /\ [][NextCron]_vars

(***************************************************************************)
(* SpecSystemd: the calls of SystemdScheduler applied to agent 1, from a   *)
(* timer never installed or fully installed; a call that fails half way    *)
(* leaves it partly installed                                              *)
(***************************************************************************)
AllUnits == [service |-> TRUE, timer |-> TRUE, link |-> TRUE, enabled |-> TRUE]

SystemdCallRecord(op, disabled, done, ok) ==
    [op |-> op, pre |-> units[CronAgent], disabled |-> disabled, done |-> done,
     ok |-> ok]

\* the outcomes of `systemctl --user disable --now multi-restic-backup.timer`:
\* without an enabled timer it fails (not found); with one it stops it, or
\* fails for another reason
DisableOutcomes(a) == IF units[a].enabled THEN BOOLEAN ELSE {FALSE}

InitSystemd ==
    /\ \E st \in AgentStates :
        /\ crontab = [a \in Agents |-> st.crontab]
        /\ files = [a \in Agents |-> st.files]
        /\ units = [a \in Agents |-> st.units]
    /\ paths = [a \in Agents |-> BackupPaths]
    /\ cronCalls = <<>>
    /\ InstallIdle
    /\ CheckIdle
    /\ DownloadIdle
    /\ GenerateIdle

CallSystemdAdd ==
    /\ Len(cronCalls) < MaxSystemdCalls
    /\ \E done \in 0..SystemdAddSteps :
        /\ SystemdAddSchedule(CronAgent, done)
        /\ cronCalls' = Append(cronCalls,
                               SystemdCallRecord("add", FALSE, done, SystemdAddOk(done)))
    /\ UNCHANGED <<crontab, files, nonCronVars>>

CallSystemdRemove ==
    /\ Len(cronCalls) < MaxSystemdCalls
    /\ \E disabled \in DisableOutcomes(CronAgent), done \in 0..SystemdRemoveSteps :
        /\ SystemdRemoveSchedule(CronAgent, disabled, done)
        /\ cronCalls' = Append(cronCalls,
                               SystemdCallRecord("remove", disabled, done,
                                                 SystemdRemoveOk(disabled, done)))
    /\ UNCHANGED <<crontab, files, nonCronVars>>

NextSystemd == CallSystemdAdd \/ CallSystemdRemove

SpecSystemd == InitSystemd /\ [][NextSystemd]_vars

(***************************************************************************)
(* Claims about the cron scheduler (SpecCron)                              *)
(***************************************************************************)
\* a call whose remote commands all succeeded
Succeeded(call) == call.readOk /\ call.ok

\* s without its trailing newlines
RECURSIVE StripNewlines(_)
StripNewlines(s) ==
    IF s # <<>> /\ s[Len(s)] = "\n" THEN StripNewlines(SubSeq(s, 1, Len(s)-1)) ELSE s

\* the lines that are neither a marker line nor the line right after one
RECURSIVE KeptFrom(_, _)
KeptFrom(lines, i) ==
    IF i > Len(lines) THEN <<>>
    ELSE (IF HasMarker(lines[i]) \/ (i > 1 /\ HasMarker(lines[i-1]))
          THEN <<>> ELSE <<lines[i]>>) \o KeptFrom(lines, i+1)

\* the crontab after the last call
CronNow == crontab[CronAgent]

\* lines without the empty lines at its end
RECURSIVE DropEmptyTail(_)
DropEmptyTail(lines) ==
    IF lines # <<>> /\ lines[Len(lines)] = <<>>
    THEN DropEmptyTail(SubSeq(lines, 1, Len(lines)-1))
    ELSE lines

\* C2: a successful remove_schedule writes back exactly the lines of the
\* crontab it read that are neither a marker line nor the line following a
\* marker line, each unchanged and in the original order (read in the
\* claim's favour: empty lines at the end of either text are not counted).
C2_RemoveKeepsOtherLines ==
    \A k \in 1..Len(cronCalls) :
        (cronCalls[k].op = "remove" /\ Succeeded(cronCalls[k]))
        => LET post == IF k < Len(cronCalls) THEN cronCalls[k+1].pre ELSE CronNow
           IN  DropEmptyTail(splitlines(post))
                 = DropEmptyTail(KeptFrom(splitlines(cronCalls[k].pre), 1))

\* C3: a successful add_schedule followed by a successful remove_schedule
\* leaves the crontab it started from, up to trailing newlines.
C3_AddThenRemoveRestores ==
    (/\ Len(cronCalls) >= 2
     /\ cronCalls[1].op = "add" /\ Succeeded(cronCalls[1])
     /\ cronCalls[2].op = "remove" /\ Succeeded(cronCalls[2]))
    => LET post == IF Len(cronCalls) > 2 THEN cronCalls[3].pre ELSE CronNow
       IN  StripNewlines(post) = StripNewlines(cronCalls[1].pre)

RECURSIVE MarkerLinesFrom(_, _, _)
MarkerLinesFrom(text, i, seen) ==
    IF i > Len(text) THEN 0
    ELSE IF text[i] = "\n" THEN MarkerLinesFrom(text, i+1, FALSE)
    ELSE IF text[i] = "M" /\ ~seen THEN 1 + MarkerLinesFrom(text, i+1, TRUE)
    ELSE MarkerLinesFrom(text, i+1, seen)

MarkerLineCount(text) == MarkerLinesFrom(text, 1, FALSE)

\* the agent the run has last issued a remote operation to
LastAgent == CHOOSE a \in instTouched : \A b \in instTouched : b <= a

\* install has finished its last agent: line 181 was reached for it
AgentScheduled ==
    /\ instPc \in {"loop", "done"}
    /\ Len(instLog) >= 2
    /\ instLog[Len(instLog) - 1] = "scheduled"

\* C1: the crontab of an agent never holds more than one marker line, and it
\* holds exactly one when install has finished an agent that uses cron.
C1_OneMarkerBlock ==
    /\ \A a \in Agents : MarkerLineCount(crontab[a]) <= 1
    /\ (AgentScheduled /\ instCur.scheduler = "cron")
         => MarkerLineCount(crontab[LastAgent]) = 1

\* install has finished, with cron, the first agent of a fleet that an earlier
\* install had put a marker block on: the next agent still holds its block
C1_Witness ==
    /\ AgentScheduled /\ instCur.scheduler = "cron"
    /\ LastAgent = 1
    /\ NumAgents \notin instTouched
    /\ MarkerLineCount(crontab[NumAgents]) = 1
    /\ MarkerLineCount(crontab[1]) = 1

\* C5: once a run has stopped on an error at an agent, it is over, and no
\* agent later in configuration order has been issued a remote operation.
C5_FailFast ==
    instFatal # 0 =>
        /\ instPc = "done"
        /\ \A a \in instTouched : a <= instFatal

\* the download failed on the first agent of a run over all agents
C5_Witness ==
    /\ instResult = "download failed"
    /\ instFatal = 1
    /\ instFatal < NumAgents
    /\ instArgs.agents = {}

\* C6: in a run whose configuration has an unresolved env: source key, or
\* that names an agent the configuration lacks, no agent has been issued a
\* mutating remote operation.
C6_ConfigErrorBeforeMutation ==
    (instPc # "idle" /\ (~instCur.envOk \/ UnknownAgent \in instArgs.agents))
    => /\ \A i \in 1..Len(instLog) : instLog[i] \notin MutatingOps
       /\ instTouched \subseteq {instIdx}

\* the scheduler commands that exited non-zero
FailedSchedulerCommands ==
    {"crontab -l failed", "crontab - failed",
     "systemctl enable failed", "systemctl disable; rm failed"}

\* C11: when a remote command of add_schedule or remove_schedule has exited
\* non-zero, the run has ended there with the error raised, and the agent is
\* not reported as scheduled.
C11_SchedulerFailureRaises ==
    (\E i \in 1..Len(instLog) : instLog[i] \in FailedSchedulerCommands)
    => /\ instPc = "done"
       /\ instResult = "raised"
       /\ \A i \in 1..Len(instLog) : instLog[i] # "scheduled"

\* the place of a logged operation in the order of the steps of one agent
StepRanks ==
    "open" :> 1 @@ "connect failed" :> 1 @@ "install -d" :> 2
    @@ "restic version" :> 3 @@ "install/restic version" :> 3
    @@ "download restic" :> 4 @@ "put env" :> 5 @@ "put backup.sh" :> 6
    @@ "run backup.sh" :> 7 @@ "remove_schedule" :> 8 @@ "add_schedule" :> 10
    @@ "scheduled" :> 11 @@ "close" :> 11

StepRank(op) == IF op \in DOMAIN StepRanks THEN StepRanks[op] ELSE 0

\* from entry i on, the steps are logged in rising order, last being the rank
\* of the step before; the commands of a scheduler operation have no rank
RECURSIVE InOrderFrom(_, _)
InOrderFrom(i, last) ==
    IF i > Len(instLog) THEN TRUE
    ELSE LET rank == StepRank(instLog[i])
         IN  IF rank = 0 THEN InOrderFrom(i + 1, last)
             ELSE /\ rank >= last
                  /\ rank = last => rank \in {1, 3, 11}
                  /\ InOrderFrom(i + 1, rank)

InLog(op) == \E i \in 1..Len(instLog) : instLog[i] = op

\* C17: the operations on the agent being installed are logged in the order
\* session, install directory, probes, download, secret files, script, test
\* backup, remove_schedule, add_schedule; no step is there without the steps
\* it needs before it, and add_schedule follows a complete remove_schedule.
C17_StepsInOrder ==
    LET steps == {StepRank(instLog[i]) : i \in 1..Len(instLog)}
    IN  /\ InOrderFrom(1, 0)
        /\ 2 \in steps => 1 \in steps
        /\ 3 \in steps => 2 \in steps
        /\ 4 \in steps => 3 \in steps
        /\ 5 \in steps => 3 \in steps
        /\ 6 \in steps => 5 \in steps
        /\ 7 \in steps => 6 \in steps /\ ~instArgs.skip
        /\ 8 \in steps => {5, 6} \subseteq steps /\ (instArgs.skip \/ 7 \in steps)
        /\ 10 \in steps =>
             /\ 8 \in steps
             /\ \A i \in 2..Len(instLog) :
                  instLog[i] = "add_schedule" =>
                     instLog[i - 1] \in {"crontab -", "systemctl disable; rm"}

\* an agent went through every step, the download and the test backup included
C17_Witness ==
    /\ AgentScheduled
    /\ InLog("download restic")
    /\ InLog("run backup.sh")

(***************************************************************************)
(* Claims about check (SpecCheck)                                          *)
(***************************************************************************)
\* C8: check tries every configured agent once, in configuration order,
\* whichever connections fail; a failure neither ends nor leaves the command.
C8_CheckIsolatesAgents ==
    /\ \A i \in 1..Len(chkAttempts) : chkAttempts[i] = i
    /\ chkPc = "done" => Len(chkAttempts) = NumAgents
    /\ chkPc \notin {"raised", "returned"}

\* the first agent could not be reached and the last one was checked fully
C8_Witness ==
    /\ chkPc = "done"
    /\ NumAgents > 1
    /\ chkOutcome[1] = "unreachable"
    /\ chkOutcome[NumAgents] = "checked"

\* the commands that read the agent without changing it
ReadOnlyCommands == {"ls backup.sh", "crontab -l", "install/restic version",
                     "test -e backup_root", "test -e path"}

\* C9: check runs only read-only commands, and no step of it changes the
\* install location, the crontab, the systemd units or the backup paths of
\* any agent.
C9_CheckReadOnly ==
    /\ [](\A i \in 1..Len(chkLog) : chkLog[i] \in ReadOnlyCommands)
    /\ [][UNCHANGED <<crontab, files, units, paths>>]_vars

\* check has gone through an installed first agent, whose state is intact
C9_Witness ==
    /\ chkOutcome[1] = "checked"
    /\ files[1] = InstalledFiles
    /\ MarkerLineCount(crontab[1]) = 1

\* C10: for an agent whose backup_root is missing, check probes none of its
\* to_backup entries, and the command goes on to the other agents.
C10_NoPathChecksWithoutRoot ==
    /\ (chkAttempts # <<>> /\ 0 \notin paths[chkAttempts[Len(chkAttempts)]])
         => \A i \in 1..Len(chkLog) : chkLog[i] # "test -e path"
    /\ \A a \in Agents : 0 \notin paths[a] => chkOutcome[a] # "checked"
    /\ \A a \in Agents :
         chkOutcome[a] = "no backup_root" =>
            /\ chkIdx > a
            /\ chkPc \notin {"raised", "returned"}
            /\ a = NumAgents => chkPc = "done"

\* the first agent has no backup_root and the second is being probed
C10_Witness ==
    /\ NumAgents > 1
    /\ chkOutcome[1] = "no backup_root"
    /\ chkIdx = 2
    /\ chkLog # <<>>

RECURSIVE LinesStarting(_, _, _)
LinesStarting(text, i, tok) ==
    IF i > Len(text) THEN <<>>
    ELSE (IF text[i] # <<>> /\ text[i][1] = tok THEN <<i>> ELSE <<>>)
         \o LinesStarting(text, i+1, tok)

\* the lines between first and last that start with tok
LinesWithin(text, first, last, tok) ==
    {i \in first..last : text[i] # <<>> /\ text[i][1] = tok}

\* C12: in a generated script the blocks are those of the repositories, in
\* the order of the mapping, each from its # START line to its # END line,
\* with one backup line, and with a forget line right after it exactly when
\* forget_arguments is set (the empty string included).
C12_BlocksInOrder ==
    \A c \in 1..Len(genScripts) :
        LET text == genScripts[c].script
            repos == genAgent.repositories
            starts == LinesStarting(text, 1, "# START ")
            ends == LinesStarting(text, 1, "# END ")
        IN  /\ Len(starts) = Len(repos)
            /\ Len(ends) = Len(repos)
            /\ \A k \in 1..Len(repos) :
                 LET backups == LinesWithin(text, starts[k], ends[k], "restic backup ")
                     forgets == LinesWithin(text, starts[k], ends[k], "restic forget ")
                 IN  /\ text[starts[k]] = <<"# START ", repos[k].name>>
                     /\ text[ends[k]] = <<"# END ", repos[k].name>>
                     /\ starts[k] < ends[k]
                     /\ k < Len(repos) => ends[k] < starts[k+1]
                     /\ Cardinality(backups) = 1
                     /\ forgets = IF repos[k].forget_arguments # PyNone
                                  THEN {b + 1 : b \in backups} ELSE {}

\* the source key of an env: directive resolves: it is in the secret source
\* and has a value
Resolves(key) == key \in DOMAIN genEnvValues /\ genEnvValues[key] # PyNone

\* the documented forms of a directive
IsPlain(d) == Len(d) >= 3 /\ d[1] = "plain" /\ d[2] = ":"
IsEnv(d) == Len(d) = 3 /\ d[1] = "env" /\ d[2] = ":"
IsEnvRenamed(d) == Len(d) = 5 /\ d[1] = "env" /\ d[2] = ":" /\ d[4] = ":"

\* the export line the documentation gives for a directive
ExportLineFor(d) ==
    IF IsPlain(d) THEN <<"export ">> \o SubSeq(d, 3, Len(d))
    ELSE IF IsEnv(d) THEN <<"export ", d[3], "=", genEnvValues[d[3]]>>
    ELSE <<"export ", d[5], "=", genEnvValues[d[3]]>>

\* C13: a secret file returned for a repository holds the endpoint line and
\* then one export line per env_vars entry, in order; a plain: entry gives its
\* literal, an env: entry gives its name or its new name with the resolved
\* value.
C13_OneExportPerDirective ==
    \A c \in 1..Len(genEnvFiles) :
        genEnvFiles[c] # "KeyError" =>
            LET env_files == genEnvFiles[c]
                repos == genAgent.repositories
            IN  /\ Len(env_files) = Len(repos)
                /\ \A k \in 1..Len(repos) :
                     LET text == env_files[k].text
                         env_vars == repos[k].env_vars
                     IN  /\ env_files[k].name = repos[k].name
                         /\ Len(text) = 2 + Len(env_vars)
                         /\ text[2] = <<"export RESTIC_REPOSITORY=", repos[k].endpoint>>
                         /\ \A i \in 1..Len(env_vars) :
                              /\ 2 + i <= Len(text) => text[2 + i][1] = "export "
                              /\ (/\ 2 + i <= Len(text)
                                  /\ IsPlain(env_vars[i])
                                     \/ ((IsEnv(env_vars[i]) \/ IsEnvRenamed(env_vars[i]))
                                         /\ Resolves(env_vars[i][3])))
                                 => text[2 + i] = ExportLineFor(env_vars[i])

\* C14: when an env: directive of a documented form names a source key that
\* does not resolve, generate_env_files returns no secret files.
C14_UnresolvedKeyIsError ==
    \A c \in 1..Len(genEnvFiles) :
        (\E k \in 1..Len(genAgent.repositories) :
            \E i \in 1..Len(genAgent.repositories[k].env_vars) :
                LET d == genAgent.repositories[k].env_vars[i]
                IN  (IsEnv(d) \/ IsEnvRenamed(d)) /\ ~Resolves(d[3]))
        => genEnvFiles[c] = "KeyError"

\* the agent with other endpoints and other env_vars in every repository
WithSecrets(agent, endpoint, env_vars) ==
    [agent EXCEPT !.repositories =
        [k \in 1..Len(agent.repositories) |->
            [agent.repositories[k] EXCEPT !.endpoint = endpoint, !.env_vars = env_vars]]]

EnvVarsVariants == {<<>>, << <<"env", ":", "SRC">> >>}

\* the lines of the secret files returned so far
SecretFileLines ==
    UNION {UNION {{genEnvFiles[c][k].text[i] : i \in 1..Len(genEnvFiles[c][k].text)}
                  : k \in 1..Len(genEnvFiles[c])}
           : c \in {c \in 1..Len(genEnvFiles) : genEnvFiles[c] # "KeyError"}}

\* C15: a generated script is the one generate_script gives at the same date
\* for the same agent with any other endpoints and env_vars; every block
\* sources the secret file of its repository, and no line of a secret file
\* is a line of the script.
C15_ScriptHoldsNoSecret ==
    \A c \in 1..Len(genScripts) :
        LET text == genScripts[c].script
            repos == genAgent.repositories
            starts == LinesStarting(text, 1, "# START ")
        IN  /\ \A env_vars \in EnvVarsVariants :
                 \A endpoint \in Endpoints \ {repos[k].endpoint : k \in 1..Len(repos)} :
                    generate_script(WithSecrets(genAgent, endpoint, env_vars),
                                    genScripts[c].date) = text
            /\ Len(starts) = Len(repos)
            /\ \A k \in 1..Len(repos) :
                 text[starts[k] + 1] =
                    <<"source ", genAgent.install_location, "/.env.", repos[k].name>>
            /\ {text[i] : i \in 1..Len(text)} \cap SecretFileLines = {}

\* a script and a secret file with a resolved secret have been generated
C15_Witness ==
    /\ genScripts # <<>>
    /\ genAgent.repositories # <<>>
    /\ \E line \in SecretFileLines : line[Len(line)] = "s3cr3t"

C18_ResticReported ==
    chkRestic.reported # "nothing" =>
        (chkRestic.reported = "unavailable"
            <=> (~chkRestic.in_path /\ ~chkRestic.in_install))

(***************************************************************************)
(* Claims about the sessions and paths of download-snapshot (SpecDownload) *)
(***************************************************************************)
\* C19: a thread runs its commands and transfers on the session it opened
\* itself, which is neither the session of the command nor that of another
\* thread.
C19_OwnSession ==
    \A w \in 1..MaxWorkers :
        /\ exportUsed[w] \subseteq {dlSessions[w]} \ {0}
        /\ dlSessions[w] # 0 =>
              \A v \in 0..MaxWorkers : v # w => dlSessions[v] # dlSessions[w]

\* two threads are transferring, each having used a session
C19_Witness ==
    /\ exportPc[1] = "transfer"
    /\ exportPc[2] = "transfer"
    /\ exportUsed[1] # {}
    /\ exportUsed[2] # {}
    /\ dlSessions[0] # 0

\* the thread has a session and has not ended: its next step works on its paths
ExportWorking(w) == exportPc[w] \in {"restore", "compress", "sftp", "transfer"}

PathsOf(w) == {RestorePath(dlIds[w]), ArchivePath(dlIds[w]), LocalPath(dlIds[w])}

\* C20: two threads of one command that are both at work have no remote
\* path and no local file in common.
C20_DistinctPaths ==
    \A w, v \in 1..MaxWorkers :
        (w # v /\ ExportWorking(w) /\ ExportWorking(v))
        => PathsOf(w) \cap PathsOf(v) = {}

(***************************************************************************)
(* download_snapshot._export: the order of the steps                       *)
(***************************************************************************)
\* the steps of _export in the order of the code, as the log shows them
\* when they succeed
ExportSteps == <<"restore", "compress", "open">>

\* how the i-th step of a thread shows in the log: done, exited non-zero, or
\* left by an exception
StepOutcomes(i) ==
    CASE i = 1 -> {"restore", "restore failed", "restore died"}
      [] i = 2 -> {"compress", "compress failed", "compress died"}
      [] i = 3 -> {"open", "open died"}

\* C21: a thread runs restore, compress and the download in this order and
\* stops at the first step that fails: after a restore that exits non-zero it
\* runs nothing more, after a compress that exits non-zero it opens no
\* transfer, and a local file exists only if a thread for its snapshot ran
\* restore and compress with success before it opened the file
C21_StopsAtFirstFailure ==
    /\ \A w \in 1..MaxWorkers :
        /\ Len(exportLog[w]) <= Len(ExportSteps)
        /\ \A i \in 1..Len(exportLog[w]) :
            /\ exportLog[w][i] \in StepOutcomes(i)
            /\ i < Len(exportLog[w]) => exportLog[w][i] = ExportSteps[i]
        /\ exportPc[w] \in {"transfer", "done"} => exportLog[w] = ExportSteps
        /\ exportPc[w] = "failed" =>
              exportLog[w] \in {<<"restore failed">>, <<"restore", "compress failed">>}
    /\ \A id \in localFiles :
          \E w \in 1..dlSpawned : dlIds[w] = id /\ exportLog[w] = ExportSteps

\* one thread stopped at its restore, another at its compress, and nothing
\* was downloaded
C21_Witness ==
    /\ \E w \in 1..MaxWorkers : exportLog[w] = <<"restore failed">> /\ exportPc[w] = "failed"
    /\ \E w \in 1..MaxWorkers : exportLog[w] = <<"restore", "compress failed">>
                                /\ exportPc[w] = "failed"
    /\ localFiles = {}
    /\ dlPc = "reported"

(***************************************************************************)
(* Claims about the systemd scheduler (SpecSystemd)                        *)
(***************************************************************************)
\* the timer state of the agent after the k-th call
UnitsAfter(k) == IF k < Len(cronCalls) THEN cronCalls[k+1].pre ELSE units[CronAgent]

\* the unit files and the symlink of a timer state
UnitFiles(u) == <<u.service, u.timer, u.link>>

C23_TestFailureNoScheduling ==
    instResult = "test failed" => instScheduled = {}

\* how often install ran op on the agent it is processing or has just left
TimesLogged(op) == Cardinality({i \in 1..Len(instLog) : instLog[i] = op})

\* C24: when install goes on to the next agent or ends, it has closed as
\* many sessions to the agent it leaves as it has opened
C24_SessionsClosed ==
    instPc \in {"loop", "done"} => TimesLogged("open") = TimesLogged("close")

\* the multi-restic schedules of agent a over both backends: the marker
\* blocks of its crontab and its enabled timer
ActiveSchedules(a) == MarkerLineCount(crontab[a]) + (IF units[a].enabled THEN 1 ELSE 0)

\* C25: when install has finished an agent, the agent has exactly one
\* schedule over both backends: what an earlier install left under the other
\* backend is gone
C25_OneScheduleOverBackends ==
    AgentScheduled => ActiveSchedules(LastAgent) = 1

=============================================================================
